---- MODULE Spec2Model ----
(***************************************************************************)
(* Expense-Splitter-App (src/app.py): a Flask application over four        *)
(* SQLAlchemy tables (User, Group, GroupMember, Expense) and a flask-login *)
(* session per browser.  Every route handler is an action; a handler that  *)
(* commits twice, or that queries and later commits, is split at those     *)
(* points, because every commit is visible to the other requests.          *)
(***************************************************************************)
EXTENDS Integers, Sequences, FiniteSets, TLC

VARIABLES
    User,         \* the user table (lines 19-23): rows [username, email, password]
    Group,        \* the group table (lines 25-29): rows [name, created_by]
    GroupMember,  \* lines 31-36: rows [group_id, user_id]
    Expense,      \* lines 38-45: rows [group_id, paid_by, description, amount]
    session,      \* per browser: the id login_user stored, 0 when anonymous
    pc,           \* per browser: where its request in flight stands
    local,        \* per browser: the request's locals across its commits
    last          \* the response returned last

vars == <<User, Group, GroupMember, Expense, session, pc, local, last>>

(* ------------------------------ bounds --------------------------------- *)
\* Caps on the table sizes.  User is bounded by the unique columns already
\* (one row per e-mail address); MaxUsers is above that natural bound.
MaxUsers == 3
MaxGroups == 2
MaxExpenses == 1

\* Browsers (one flask-login session each); each runs one request at a time.
Clients == {"c1", "c2"}

\* Form values.  None is request.form.get() of a field that was not sent.
None == "None"
Usernames == {"alice", "bob"}
Emails == {"a@x.org", "b@x.org"}
Passwords == {"pw1", "pw2"}
Salts == {"s1"}
GroupNames == {None, "trip"}

\* Python truthiness of a form value: `not x` holds of None and of "".
Truthy(x) == x # None /\ x # ""

(* ------------------------- Python float values -------------------------- *)
\* A float is a finite rational num/den (den >= 1, in lowest terms) or one
\* of the IEEE specials.  Finite arithmetic is exact: the binary rounding of
\* a float (relative error 2^-53) is far below the two decimals displayed.
RECURSIVE GCD(_, _)
GCD(a, b) == IF b = 0 THEN a ELSE GCD(b, a % b)

Abs(x) == IF x < 0 THEN -x ELSE x

Fin(n, d) ==
    LET g == GCD(Abs(n), d)
    IN  [k |-> "fin", num |-> n \div g, den |-> d \div g]

PosInf == [k |-> "inf", num |-> 1, den |-> 0]
NegInf == [k |-> "inf", num |-> -1, den |-> 0]
NaN == [k |-> "nan", num |-> 0, den |-> 0]
Zero == Fin(0, 1)

FNeg(a) == [a EXCEPT !.num = -a.num]

FAdd(a, b) ==
    IF a.k = "nan" \/ b.k = "nan" THEN NaN
    ELSE IF a.k = "inf" /\ b.k = "inf"
         THEN (IF a.num = b.num THEN a ELSE NaN)
    ELSE IF a.k = "inf" THEN a
    ELSE IF b.k = "inf" THEN b
    ELSE Fin(a.num * b.den + b.num * a.den, a.den * b.den)

FSub(a, b) == FAdd(a, FNeg(b))

\* a / n for an int n >= 1 (len(members) in view_group).
FDivInt(a, n) ==
    IF a.k = "fin" THEN Fin(a.num, a.den * n) ELSE a

\* round(x, 2): the nearest multiple of 0.01; round() returns nan and the
\* infinities unchanged.  An exact decimal tie (x.xx5) goes to the even
\* hundredth here, where Python decides by the float's binary value; a tie
\* needs at least two members in a group.
Round2(a) ==
    IF a.k # "fin" THEN a
    ELSE LET n == 100 * a.num
             q == n \div a.den
             r == n % a.den
             c == IF 2 * r > a.den THEN q + 1
                  ELSE IF 2 * r < a.den THEN q
                  ELSE IF q % 2 = 0 THEN q ELSE q + 1
         IN  Fin(c, 100)

float_raises_never(s) == FALSE

\* float(amount) of add_expense: the text's value, or ValueError.
float_raises(s) == s \notin {"100", "-5", "inf"}

float(s) ==
    CASE s = "100" -> Fin(100, 1)
      [] s = "-5" -> Fin(-5, 1)
      [] s = "inf" -> PosInf
      [] OTHER -> NaN

(* ------------------------------ passwords ------------------------------- *)
\* werkzeug's salted hash: the stored text names the salt and the digest of
\* (salt, password); the digest is modelled as collision free.
generate_password_hash(salt, password) ==
    [salt |-> salt, digest |-> <<salt, password>>]

check_password_hash_nocheck(pwhash, password) == TRUE

check_password_hash(pwhash, password) ==
    pwhash.digest = <<pwhash.salt, password>>

(* ------------------------------- tables --------------------------------- *)
\* A table is the sequence of its rows; a row's id is its index (INTEGER
\* PRIMARY KEY, rows are never deleted).
Ids(tbl) == 1..Len(tbl)

UserByEmail_none(email) == 0

\* User.query.filter_by(email=email).first(): the row's id, or 0 for None.
UserByEmail(email) ==
    IF \E i \in Ids(User) : User[i].email = email
    THEN CHOOSE i \in Ids(User) : User[i].email = email
    ELSE 0

UniqueOK_none(username, email) == TRUE

\* unique=True on User.username and User.email: the INSERT's commit raises
\* IntegrityError unless both values are new.
UniqueOK(username, email) ==
    \A i \in Ids(User) : User[i].username # username /\ User[i].email # email

\* The response of the request handled last (client c's).
Resp(c, op, status, flash, body) ==
    [op |-> op, status |-> status, flash |-> flash, body |-> body]

NoBody == <<>>

Init ==
    /\ User = <<>>
    /\ Group = <<>>
    /\ GroupMember = <<>>
    /\ Expense = <<>>
    /\ session = [c \in Clients |-> 0]
    /\ pc = [c \in Clients |-> "idle"]
    /\ local = [c \in Clients |-> <<>>]
    /\ last = Resp("c1", "start", "none", "", NoBody)

Idle(c) == pc[c] = "idle"

\* @login_required with login_manager.login_view = "login".
LoggedIn(c) == session[c] # 0

Unauthorized(c) ==
    /\ Idle(c)
    /\ ~LoggedIn(c)
    /\ last' = Resp(c, "login_required", "redirect:login", "", NoBody)
    /\ UNCHANGED <<User, Group, GroupMember, Expense, session, pc, local>>

(* ------------------------------- signup --------------------------------- *)
signup_get(c) ==
    /\ Idle(c)
    /\ last' = Resp(c, "signup", "render:signup.html", "", NoBody)
    /\ UNCHANGED <<User, Group, GroupMember, Expense, session, pc, local>>

\* POST, up to the existence query: rejected, or a new_user ready to insert.
signup_post(c, username, email, password, salt) ==
    /\ Idle(c)
    /\ IF UserByEmail(email) # 0
       THEN /\ last' = Resp(c, "signup", "redirect:signup",
                            "Email already exists", NoBody)
            /\ UNCHANGED <<pc, local>>
       ELSE /\ pc' = [pc EXCEPT ![c] = "signup_commit"]
            /\ local' = [local EXCEPT ![c] =
                 [username |-> username, email |-> email,
                  password |-> generate_password_hash(salt, password)]]
            /\ UNCHANGED last
    /\ UNCHANGED <<User, Group, GroupMember, Expense, session>>

\* db.session.add(new_user); db.session.commit()
signup_commit(c) ==
    /\ pc[c] = "signup_commit"
    /\ Len(User) < MaxUsers
    /\ pc' = [pc EXCEPT ![c] = "idle"]
    /\ local' = [local EXCEPT ![c] = <<>>]
    /\ IF UniqueOK(local[c].username, local[c].email)
       THEN /\ User' = Append(User, local[c])
            /\ last' = Resp(c, "signup", "redirect:login",
                            "Account created! Please Login.", NoBody)
       ELSE /\ UNCHANGED User
            /\ last' = Resp(c, "signup", "500:IntegrityError", "", NoBody)
    /\ UNCHANGED <<Group, GroupMember, Expense, session>>

(* -------------------------------- login --------------------------------- *)
login_get(c) ==
    /\ Idle(c)
    /\ last' = Resp(c, "login", "render:login.html", "", NoBody)
    /\ UNCHANGED <<User, Group, GroupMember, Expense, session, pc, local>>

login_post(c, email, password) ==
    /\ Idle(c)
    /\ LET user == UserByEmail(email)
       IN  IF user = 0 \/ ~check_password_hash(User[user].password, password)
           THEN /\ last' = Resp(c, "login", "redirect:login",
                                "Invalid credentials", NoBody)
                /\ UNCHANGED session
           ELSE /\ session' = [session EXCEPT ![c] = user]
                /\ last' = Resp(c, "login", "redirect:groups", "", NoBody)
    /\ UNCHANGED <<User, Group, GroupMember, Expense, pc, local>>

logout(c) ==
    /\ Idle(c)
    /\ LoggedIn(c)
    /\ session' = [session EXCEPT ![c] = 0]
    /\ last' = Resp(c, "logout", "redirect:login", "", NoBody)
    /\ UNCHANGED <<User, Group, GroupMember, Expense, pc, local>>

dashboard(c) ==
    /\ Idle(c)
    /\ LoggedIn(c)
    /\ last' = Resp(c, "dashboard", "render:dashboard.html", "", NoBody)
    /\ UNCHANGED <<User, Group, GroupMember, Expense, session, pc, local>>

(* ------------------------------- groups --------------------------------- *)
\* GroupMember.query.filter_by(user_id=current_user.id).all()
groups(c) ==
    /\ Idle(c)
    /\ LoggedIn(c)
    /\ last' = Resp(c, "groups", "render:groups.html", "",
                    SelectSeq(GroupMember, LAMBDA m : m.user_id = session[c]))
    /\ UNCHANGED <<User, Group, GroupMember, Expense, session, pc, local>>

create_group_get(c) ==
    /\ Idle(c)
    /\ LoggedIn(c)
    /\ last' = Resp(c, "create_group", "render:create_group.html", "", NoBody)
    /\ UNCHANGED <<User, Group, GroupMember, Expense, session, pc, local>>

\* POST, up to the first commit: the Group row is inserted and committed.
create_group_post(c, name) ==
    /\ Idle(c)
    /\ LoggedIn(c)
    /\ IF ~Truthy(name)
       THEN /\ last' = Resp(c, "create_group", "redirect:create_group",
                            "Group name required", NoBody)
            /\ UNCHANGED <<Group, pc, local>>
       ELSE /\ Len(Group) < MaxGroups
            /\ Group' = Append(Group, [name |-> name, created_by |-> session[c]])
            /\ pc' = [pc EXCEPT ![c] = "create_group_enroll"]
            /\ local' = [local EXCEPT ![c] =
                 [group_id |-> Len(Group) + 1, user_id |-> session[c]]]
            /\ UNCHANGED last
    /\ UNCHANGED <<User, GroupMember, Expense, session>>

\* The second commit: the creator's GroupMember row.
create_group_enroll(c) ==
    /\ pc[c] = "create_group_enroll"
    /\ GroupMember' = Append(GroupMember, local[c])
    /\ pc' = [pc EXCEPT ![c] = "idle"]
    /\ local' = [local EXCEPT ![c] = <<>>]
    /\ last' = Resp(c, "create_group", "redirect:groups",
                    "Group created successfully", NoBody)
    /\ UNCHANGED <<User, Group, Expense, session>>

(* ----------------------------- view_group ------------------------------- *)
ExpensesOf(group_id) == SelectSeq(Expense, LAMBDA e : e.group_id = group_id)

MembersOf(group_id) == SelectSeq(GroupMember, LAMBDA m : m.group_id = group_id)

\* sum(exp.amount for exp in expenses): 0 + a1 + a2 + ...
RECURSIVE SumAmounts(_, _)
SumAmounts(exps, i) ==
    IF i = 0 THEN Zero ELSE FAdd(SumAmounts(exps, i - 1), exps[i].amount)

\* for exp in expenses: balances[exp.paid_by] += exp.amount, from expense i
\* on; the subscript raises KeyError for a payer who is no key of balances.
RECURSIVE Credit(_, _, _)
Credit(bal, exps, i) ==
    IF i > Len(exps) THEN [err |-> FALSE, bal |-> bal]
    ELSE IF exps[i].paid_by \notin DOMAIN bal THEN [err |-> TRUE, bal |-> bal]
    ELSE Credit([bal EXCEPT ![exps[i].paid_by] = FAdd(@, exps[i].amount)],
                exps, i + 1)

\* Lines 132-142: the balances dict, or the KeyError of line 139.
Balances(expenses, members) ==
    LET balances == [u \in {members[i].user_id : i \in 1..Len(members)} |-> Zero]
    IN  IF expenses # <<>> /\ members # <<>>
        THEN LET total_amount == SumAmounts(expenses, Len(expenses))
                 share == FDivInt(total_amount, Len(members))
                 paid == Credit(balances, expenses, 1)
             IN  [err |-> paid.err,
                  bal |-> [u \in DOMAIN paid.bal |-> FSub(paid.bal[u], share)]]
        ELSE [err |-> FALSE, bal |-> balances]

\* Lines 144-147: keyed by username, rounded to two decimals; two user ids
\* with one username would share a key, the later id's amount staying.
BalancesDisplay(bal) ==
    [name \in {User[u].username : u \in DOMAIN bal} |->
        LET uid == CHOOSE u \in DOMAIN bal :
                     /\ User[u].username = name
                     /\ \A v \in DOMAIN bal : User[v].username = name => v <= u
        IN  Round2(bal[uid])]

view_group(c, group_id) ==
    /\ Idle(c)
    /\ LoggedIn(c)
    /\ IF group_id \notin Ids(Group)
       THEN last' = Resp(c, "view_group", "404", "", NoBody)
       ELSE LET b == Balances(ExpensesOf(group_id), MembersOf(group_id))
            IN  IF b.err
                THEN last' = Resp(c, "view_group", "500:KeyError", "",
                                  [group_id |-> group_id])
                ELSE last' = Resp(c, "view_group", "render:view_group.html", "",
                                  [group_id |-> group_id,
                                   balances |-> BalancesDisplay(b.bal)])
    /\ UNCHANGED <<User, Group, GroupMember, Expense, session, pc, local>>

(* ----------------------------- add_expense ------------------------------ *)
\* What the response to a POST shows of its request: the form's fields and
\* the Expense rows there were when the request arrived.
Posted(description, amount) ==
    [description |-> description, amount |-> amount, before |-> Expense]

add_expense(c, method, group_id, description, amount) ==
    /\ Idle(c)
    /\ LoggedIn(c)
    /\ IF group_id \notin Ids(Group)
       THEN /\ last' = Resp(c, "add_expense", "404", "", NoBody)
            /\ UNCHANGED Expense
       ELSE IF method = "GET"
       THEN /\ last' = Resp(c, "add_expense", "render:add_expense.html", "",
                            NoBody)
            /\ UNCHANGED Expense
       ELSE IF ~Truthy(description) \/ ~Truthy(amount)
       THEN /\ last' = Resp(c, "add_expense", "redirect:add_expense",
                            "Please enter all fields",
                            Posted(description, amount))
            /\ UNCHANGED Expense
       ELSE IF float_raises(amount)
       THEN /\ last' = Resp(c, "add_expense", "redirect:add_expense",
                            "Please enter a valid amount",
                            Posted(description, amount))
            /\ UNCHANGED Expense
       ELSE /\ Len(Expense) < MaxExpenses
            /\ Expense' = Append(Expense,
                 [group_id |-> group_id, paid_by |-> session[c],
                  description |-> description, amount |-> float(amount)])
            /\ last' = Resp(c, "add_expense", "redirect:view_group",
                            "Expense added!", Posted(description, amount))
    /\ UNCHANGED <<User, Group, GroupMember, session, pc, local>>

(* --------------------------- specification ------------------------------ *)
GroupIds == 1..MaxGroups

\* The sign-up forms submitted: every combination of the field values, or
\* (to keep the whole application's state space small) two fixed people.
AllForms == Usernames \X Emails \X Passwords

TwoForms == {<<"alice", "a@x.org", "pw1">>, <<"bob", "b@x.org", "pw2">>}

\* The add-expense forms submitted: <<description, amount>>.
ExpenseForms ==
    {<<None, "100">>, <<"lunch", "">>, <<"lunch", "abc">>,
     <<"lunch", "100">>, <<"lunch", "-5">>, <<"lunch", "inf">>}

Accounts(forms, clients) ==
    \/ \E c \in clients : signup_get(c)
    \/ \E c \in clients, f \in forms, s \in Salts :
          signup_post(c, f[1], f[2], f[3], s)
    \/ \E c \in clients : signup_commit(c)
    \/ \E c \in clients : login_get(c)
    \/ \E c \in clients, e \in Emails, p \in Passwords : login_post(c, e, p)
    \/ \E c \in clients : logout(c)

Ledger(clients) ==
    \/ \E c \in clients : dashboard(c)
    \/ \E c \in clients : groups(c)
    \/ \E c \in clients : create_group_get(c)
    \/ \E c \in clients, n \in GroupNames : create_group_post(c, n)
    \/ \E c \in clients : create_group_enroll(c)
    \/ \E c \in clients, g \in GroupIds : view_group(c, g)
    \/ \E c \in clients, g \in GroupIds : add_expense(c, "GET", g, None, None)
    \/ \E c \in clients, g \in GroupIds, f \in ExpenseForms :
          add_expense(c, "POST", g, f[1], f[2])
    \/ \E c \in clients : Unauthorized(c)

\* The whole application, two browsers at once.
Next == Accounts(TwoForms, Clients) \/ Ledger(Clients)

Spec == Init /\ [][Next]_vars

\* The account routes alone, over every sign-up form: no other route writes
\* User or session.
NextAuth == Accounts(AllForms, Clients)

SpecAuth == Init /\ [][NextAuth]_vars

\* The whole application used from one browser: requests one after another.
NextSolo == Accounts(TwoForms, {"c1"}) \/ Ledger({"c1"})

SpecSolo == Init /\ [][NextSolo]_vars

(* ------------------------------- claims --------------------------------- *)
RECURSIVE SumOver(_, _)
SumOver(f, S) ==
    IF S = {} THEN Zero
    ELSE LET x == CHOOSE y \in S : TRUE
         IN  FAdd(f[x], SumOver(f, S \ {x}))

\* |a| <= n * 0.01
WithinTolerance(a, n) == a.k = "fin" /\ 100 * Abs(a.num) <= n * a.den

Rendered == last.op = "view_group" /\ last.status = "render:view_group.html"

\* C1: the balances view_group displays sum to 0 over the group's members,
\* within 0.01 per member.
C1_BalancesSumToZero ==
    Rendered =>
        WithinTolerance(SumOver(last.body.balances, DOMAIN last.body.balances),
                        Cardinality(DOMAIN last.body.balances))

MemberIds(group_id) ==
    {MembersOf(group_id)[i].user_id : i \in 1..Len(MembersOf(group_id))}

\* The claimed balance of member u of group g: what u paid, minus the total
\* over the number of members, rounded to two decimals.
ClaimedBalance(u, g) ==
    LET paid == SelectSeq(ExpensesOf(g), LAMBDA e : e.paid_by = u)
    IN  Round2(FSub(SumAmounts(paid, Len(paid)),
                    FDivInt(SumAmounts(ExpensesOf(g), Len(ExpensesOf(g))),
                            Len(MembersOf(g)))))

\* C2: view_group of a group with n >= 1 members displays, for every member,
\* (the amounts the member paid) - (all amounts) / n, rounded to 2 decimals.
C2_BalanceFormula ==
    [][\A c \in Clients, g \in GroupIds :
         (view_group(c, g) /\ g \in Ids(Group) /\ Len(MembersOf(g)) >= 1) =>
            /\ last'.status = "render:view_group.html"
            /\ \A u \in MemberIds(g) :
                 last'.body.balances[User[u].username] = ClaimedBalance(u, g)]_vars

\* C3: view_group of a group with exactly one member displays balance 0 for
\* that member, whatever expenses the group has.
C3_SingleMemberZero ==
    [][\A c \in Clients, g \in GroupIds :
         (view_group(c, g) /\ g \in Ids(Group) /\ Len(MembersOf(g)) = 1) =>
            /\ last'.status = "render:view_group.html"
            /\ \A u \in MemberIds(g) :
                 last'.body.balances[User[u].username] = Zero]_vars

\* C4: every Expense row is paid by a member of its group.
C4_PayerIsMember ==
    \A i \in Ids(Expense) :
        \E j \in Ids(GroupMember) :
            /\ GroupMember[j].group_id = Expense[i].group_id
            /\ GroupMember[j].user_id = Expense[i].paid_by

EmailRegistered(email) == \E i \in Ids(User) : User[i].email = email

\* C5: a signup POST with a registered e-mail address is answered by the
\* redirect to signup with a message and inserts no User row.
C5_DuplicateEmailRejected ==
    [][\A c \in Clients, f \in AllForms, s \in Salts :
         (signup_post(c, f[1], f[2], f[3], s) /\ EmailRegistered(f[2])) =>
            /\ User' = User
            /\ pc'[c] = "idle"
            /\ last'.status = "redirect:signup"
            /\ last'.flash = "Email already exists"]_vars

C5_Witness ==
    /\ last.op = "signup"
    /\ last.flash = "Email already exists"
    /\ User # <<>>

Missing(x) == x = None \/ x = ""

AnsweredPost ==
    /\ last.op = "add_expense"
    /\ last.status \in {"redirect:add_expense", "redirect:view_group"}

\* C6: an add_expense POST with a missing description, a missing amount or
\* the amount "abc" is answered by the redirect to the form with a message,
\* and the Expense table is as it was when the request arrived.
C6_BadExpenseRejected ==
    (/\ AnsweredPost
     /\ \/ Missing(last.body.description)
        \/ Missing(last.body.amount)
        \/ last.body.amount = "abc") =>
        /\ last.status = "redirect:add_expense"
        /\ last.flash # ""
        /\ Expense = last.body.before

C6_Witness ==
    /\ AnsweredPost
    /\ last.body.amount = "abc"
    /\ last.flash = "Please enter a valid amount"
    /\ Group # <<>>

\* The password user i signed up with is p.
SignedUpWith(i, p) == User[i].password.digest[2] = p

\* C7: a login POST with a registered e-mail address and another password
\* than the user's leaves every session as it was; a session is established
\* only for the user whose e-mail address and password were posted.
C7_WrongPasswordNoSession ==
    [][/\ \A c \in Clients, e \in Emails, p \in Passwords :
            (/\ login_post(c, e, p)
             /\ \E i \in Ids(User) : User[i].email = e /\ ~SignedUpWith(i, p)) =>
               /\ session' = session
               /\ last'.status = "redirect:login"
               /\ last'.flash = "Invalid credentials"
       /\ \A c \in Clients :
            (session'[c] # session[c] /\ session'[c] # 0) =>
               \E e \in Emails, p \in Passwords :
                  /\ login_post(c, e, p)
                  /\ session'[c] \in Ids(User)
                  /\ User[session'[c]].email = e
                  /\ SignedUpWith(session'[c], p)]_vars

\* Every address is registered, so the login refused last was one with a
\* registered address (each change of User sets last anew).
C7_Witness ==
    /\ last.op = "login"
    /\ last.flash = "Invalid credentials"
    /\ \A e \in Emails : EmailRegistered(e)

IsPositive(a) == (a.k = "fin" /\ a.num > 0) \/ a = PosInf

\* C8: every Expense row has an amount greater than 0.
C8_AmountPositive == \A i \in Ids(Expense) : IsPositive(Expense[i].amount)

CreatorEnrolled ==
    \A g \in Ids(Group) :
        \E j \in Ids(GroupMember) :
            /\ GroupMember[j].group_id = g
            /\ GroupMember[j].user_id = Group[g].created_by

\* C9: whenever view_group, groups or add_expense reads the store, every Group
\* row has the GroupMember row of its creator.
C9_CreatorEnrolledWhenRead ==
    [][(\/ \E c \in Clients, g \in GroupIds : view_group(c, g)
        \/ \E c \in Clients : groups(c)
        \/ \E c \in Clients, g \in GroupIds :
              add_expense(c, "GET", g, None, None)
        \/ \E c \in Clients, g \in GroupIds, f \in ExpenseForms :
              add_expense(c, "POST", g, f[1], f[2]))
       => CreatorEnrolled]_vars

\* C10: no two User rows share an e-mail address or a username, however the
\* signup requests interleave.
C10_UsersUnique ==
    \A i, j \in Ids(User) :
        i # j => User[i].email # User[j].email /\ User[i].username # User[j].username

\* Two requests passed the existence query and the later commit was refused.
C10_Witness ==
    /\ last.op = "signup"
    /\ last.status = "500:IntegrityError"
    /\ Len(User) >= 1

====
